---- MODULE Spec2Model ----
(***************************************************************************)
(* A model of the sudoku solver of src/main.cpp: the 16-bit candidate       *)
(* bitmap of a Cell, the 3x3 SubGrid with its cached solved flag, the Grid  *)
(* of nine SubGrids with its constraint propagation, and the depth-first    *)
(* driver Grid::solve with its work stack.                                  *)
(*                                                                          *)
(* A uint16_t bitmap is modelled as the set of the positions (0..15) of its *)
(* set bits: & is \cap, | is \cup, ~ is the complement within 0..15.        *)
(***************************************************************************)
EXTENDS Integers, Sequences, FiniteSets

VARIABLES
  this,            \* the Grid solve is called on (const in solve)
  maxArg,          \* the argument maxNbSolutions as passed by the caller
  maxNbSolutions,  \* solve's parameter, decremented as solutions are found
  grids,           \* solve's work stack (GridVector grids)
  solutions,       \* solve's result (GridVector solutions)
  grid,            \* solve's local: the grid popped from the stack
  cell,            \* generate's cellAt(row, col), the cell that is split
  lhsrhs,          \* generate's [lhsCell, rhsCell] = cell.split()
  pc               \* position in solve (or in the split harness)

vars == <<this, maxArg, maxNbSolutions, grids, solutions, grid, cell, lhsrhs, pc>>

(***************************************************************************)
(* Bounds of the model.                                                     *)
(***************************************************************************)
\* the boards blank any of the first NumGroups groups of HoleGroups
NumGroups == 6
\* the caps tried are -1, 0, 1 .. MaxCap
MaxCap == 2
\* solve as a function is run for at most 2^MaxLoopLog iterations of its loop
MaxLoopLog == 5
\* the grids generate is run on by itself hold cells of 0 .. MaxWide candidates
MaxWide == 5
\* the sweeps of a propagation are counted up to 2^MaxSweepLog
MaxSweepLog == 10

(***************************************************************************)
(* Cell                                                                     *)
(***************************************************************************)
Bits16 == 0..15

\* (1U << 9) - 1
kAllPossibleBmp == 0..8

\* ~x truncated to uint16_t
Not16(bmp) == Bits16 \ bmp

\* the default member initializer bmp{}
EmptyBmp == {}

contains(bmp, i) == (i - 1) \in bmp

is(bmp, i) == bmp = {i - 1}

\* bmp && (bmp & (bmp - 1)) == 0: exactly one bit set
isKnown(bmp) == Cardinality(bmp) = 1

\* std::popcount(bmp)
nbPossibleValues(bmp) == Cardinality(bmp)

\* bmp |= (1U << (i - 1))
set(bmp, i) == bmp \cup {i - 1}

\* c - '0' for the digit characters
CharToInt(c) ==
  CASE c = "1" -> 1 [] c = "2" -> 2 [] c = "3" -> 3 [] c = "4" -> 4
    [] c = "5" -> 5 [] c = "6" -> 6 [] c = "7" -> 7 [] c = "8" -> 8
    [] c = "9" -> 9

\* '0' + i
IntToChar(i) == <<"1", "2", "3", "4", "5", "6", "7", "8", "9">>[i]

\* Cell::Cell(char c)
CellOfChar(c) == IF c = "." THEN kAllPossibleBmp ELSE set(EmptyBmp, CharToInt(c))

RECURSIVE convertLoop(_, _)
convertLoop(bmp, i) ==
  IF i > 9 THEN "."
  ELSE IF is(bmp, i) THEN IntToChar(i) ELSE convertLoop(bmp, i + 1)

convertToChar(bmp) == convertLoop(bmp, 1)

\* the body of the loop of Cell::split for the digit i: a candidate goes to
\* first, and the loop breaks once lhsNbBits of them were collected
splitBit(bmp, i, st, lhsNbBits) ==
  IF contains(bmp, i)
  THEN [first |-> set(st.first, i), nLhs |-> st.nLhs + 1,
        broke |-> st.nLhs + 1 = lhsNbBits]
  ELSE st

\* the loop of Cell::split over the digits lo..hi in ascending order (the
\* range is halved so that the evaluation stays shallow)
RECURSIVE splitLoop(_, _, _, _, _)
splitLoop(bmp, lo, hi, st, lhsNbBits) ==
  IF lo = hi THEN splitBit(bmp, lo, st, lhsNbBits)
  ELSE LET left == splitLoop(bmp, lo, (lo + hi) \div 2, st, lhsNbBits)
       IN  IF left.broke THEN left
           ELSE splitLoop(bmp, (lo + hi) \div 2 + 1, hi, left, lhsNbBits)

\* the mutant of lhsNbBits below: rounds down
lhsNbBitsFloor(bmp) == nbPossibleValues(bmp) \div 2

\* (nbPossibleValues() + 1) / 2
lhsNbBits(bmp) == (nbPossibleValues(bmp) + 1) \div 2

\* the mutant of split below: the complement of first is not masked by bmp
splitUnmasked(bmp) ==
  LET first == splitLoop(bmp, 1, 9, [first |-> EmptyBmp, nLhs |-> 0, broke |-> FALSE],
                         lhsNbBits(bmp)).first
  IN  [first |-> first, second |-> Not16(first)]

\* the mutant of split below: both halves are the whole cell
splitNone(bmp) == [first |-> bmp, second |-> bmp]

split(bmp) ==
  LET first == splitLoop(bmp, 1, 9, [first |-> EmptyBmp, nLhs |-> 0, broke |-> FALSE],
                         lhsNbBits(bmp)).first
  IN  [first |-> first, second |-> Not16(first) \cap bmp]

(***************************************************************************)
(* SubGrid: cells[9] and the cached flag _isSolved                          *)
(***************************************************************************)
\* SubGrid::cellAt: cells[col * 3 + row]
cellIdx(row, col) == col * 3 + row

\* the 3x3 loop of SubGrid::isSolved: false at the first cell that is not known
allKnown(cells) == \A i \in 0..8 : isKnown(cells[i])

\* the mutant of SubGrid_isSolved below: the flag is set whatever the cells are
SubGrid_isSolvedEager(sg) ==
  [ret |-> sg.isSolved \/ allKnown(sg.cells), subGrid |-> [sg EXCEPT !.isSolved = TRUE]]

\* the mutant of SubGrid_isSolved below: no SubGrid is ever reported solved
SubGrid_isSolvedNever(sg) == [ret |-> FALSE, subGrid |-> sg]

\* SubGrid::isSolved: the answer and the SubGrid with its flag updated
SubGrid_isSolved(sg) ==
  IF sg.isSolved THEN [ret |-> TRUE, subGrid |-> sg]
  ELSE IF allKnown(sg.cells)
       THEN [ret |-> TRUE, subGrid |-> [sg EXCEPT !.isSolved = TRUE]]
       ELSE [ret |-> FALSE, subGrid |-> sg]

\* the loop shared by SubGrid::isValid, Grid::isRowValid and Grid::isColValid
\* over the nine cells line[1..9] of a house. The loop returns false at the
\* first known cell that meets knownBmp (the OR of the known cells before it)
\* and at the first cell that is 0; otherwise it compares bmp, the OR of all
\* cells, with kAllPossibleBmp.
houseValid(line) ==
  /\ \A k \in 1..9 :
       /\ ~(isKnown(line[k]) /\
            (UNION { line[j] : j \in { i \in 1..(k - 1) : isKnown(line[i]) } })
               \cap line[k] # {})
       /\ line[k] # {}
  /\ UNION { line[k] : k \in 1..9 } = kAllPossibleBmp

\* the 3x3 loops of SubGrid visit row 0..2, then col 0..2
subGridLine(sg) == [k \in 1..9 |-> sg.cells[cellIdx((k - 1) \div 3, (k - 1) % 3)]]

SubGrid_isValid(sg) == houseValid(subGridLine(sg))

\* the loop shared by getBmpKnownValues, rowKnownBmp and colKnownBmp: the OR
\* of the known cells among line[1..9]
knownBmp(line) == UNION { line[k] : k \in { i \in 1..9 : isKnown(line[i]) } }

getBmpKnownValues(sg) == knownBmp(subGridLine(sg))

(***************************************************************************)
(* Grid: subGrids[9]                                                        *)
(***************************************************************************)
\* Grid::subGridAt: subGrids[col * 3 + row]
subGridIdx(row, col) == col * 3 + row

\* Grid::cellAt
cellAt(g, row, col) ==
  g[subGridIdx(row \div 3, col \div 3)].cells[cellIdx(row % 3, col % 3)]

\* a board is 81 characters, row-major; Grid::Grid(board)
GridOfBoard(board) ==
  [s \in 0..8 |->
    [cells |-> [i \in 0..8 |->
                 CellOfChar(board[((s % 3) * 3 + (i % 3)) * 9
                                  + ((s \div 3) * 3 + (i \div 3)) + 1])],
     isSolved |-> FALSE]]

rowLine(g, row) == [k \in 1..9 |-> cellAt(g, row, k - 1)]

colLine(g, col) == [k \in 1..9 |-> cellAt(g, k - 1, col)]

rowKnownBmp(g, row) == knownBmp(rowLine(g, row))

colKnownBmp(g, col) == knownBmp(colLine(g, col))

isRowValid(g, row) == houseValid(rowLine(g, row))

isColValid(g, col) == houseValid(colLine(g, col))

\* the loop of Grid::isSolved over the SubGrids lo..hi in order: it stops at
\* the first SubGrid that is not solved, the flags of the SubGrids before it
\* are set (the range is halved so that the evaluation stays shallow)
RECURSIVE isSolvedLoop(_, _, _)
isSolvedLoop(g, lo, hi) ==
  IF lo = hi
  THEN LET r == SubGrid_isSolved(g[lo])
       IN  [ret |-> r.ret, grid |-> [g EXCEPT ![lo] = r.subGrid]]
  ELSE LET left == isSolvedLoop(g, lo, (lo + hi) \div 2)
       IN  IF ~left.ret THEN left
           ELSE isSolvedLoop(left.grid, (lo + hi) \div 2 + 1, hi)

\* the mutant of Grid_isSolved below: never reports a solved grid
Grid_isSolvedNever(g) == [ret |-> FALSE, grid |-> g]

Grid_isSolved(g) == isSolvedLoop(g, 0, 8)

\* the mutant of Grid_isValid below: every grid is rejected
Grid_isValidNever(g) == FALSE

\* the mutant of Grid_isValid below: no grid is ever rejected
Grid_isValidAlways(g) == TRUE

Grid_isValid(g) ==
  /\ \A s \in 0..8 : SubGrid_isValid(g[s])
  /\ \A rowOrCol \in 0..8 : isRowValid(g, rowOrCol) /\ isColValid(g, rowOrCol)

(***************************************************************************)
(* Grid::intersectConstraints                                               *)
(***************************************************************************)
\* the mutant of sweepCell below: a visit of an unknown cell counts as an update
sweepCellAlwaysFlag(st, colBmps, rowBmp, row, col) ==
  LET s == subGridIdx(row \div 3, col \div 3)
      i == cellIdx(row % 3, col % 3)
      oldBmp == st.grid[s].cells[i]
      newBmp == ((oldBmp \cap Not16(getBmpKnownValues(st.grid[s])))
                   \cap rowBmp) \cap colBmps[col]
  IN  IF ~isKnown(oldBmp)
      THEN [grid |-> [st.grid EXCEPT ![s].cells[i] = newBmp], updateDoneStep |-> TRUE]
      ELSE st

\* the mutant of sweepCell below: known cells are narrowed too
sweepCellNoSkip(st, colBmps, rowBmp, row, col) ==
  LET s == subGridIdx(row \div 3, col \div 3)
      i == cellIdx(row % 3, col % 3)
      oldBmp == st.grid[s].cells[i]
      newBmp == ((oldBmp \cap Not16(getBmpKnownValues(st.grid[s])))
                   \cap rowBmp) \cap colBmps[col]
  IN  IF oldBmp # newBmp
      THEN [grid |-> [st.grid EXCEPT ![s].cells[i] = newBmp], updateDoneStep |-> TRUE]
      ELSE st

\* the body of the inner loop for the cell (row, col): rowBmp and colBmps
\* were computed before, the SubGrid's known values are read as the cell is
\* visited
sweepCell(st, colBmps, rowBmp, row, col) ==
  LET s == subGridIdx(row \div 3, col \div 3)
      i == cellIdx(row % 3, col % 3)
      oldBmp == st.grid[s].cells[i]
      newBmp == ((oldBmp \cap Not16(getBmpKnownValues(st.grid[s])))
                   \cap rowBmp) \cap colBmps[col]
  IN  IF ~isKnown(oldBmp) /\ oldBmp # newBmp
      THEN [grid |-> [st.grid EXCEPT ![s].cells[i] = newBmp], updateDoneStep |-> TRUE]
      ELSE st

\* the inner loop over the columns lo..hi of a row, in order. The range is
\* halved and the state after the first half is looked at before the second
\* half is entered, so that the evaluation stays shallow.
RECURSIVE sweepCols(_, _, _, _, _, _)
sweepCols(st, colBmps, rowBmp, row, lo, hi) ==
  LET left == sweepCols(st, colBmps, rowBmp, row, lo, (lo + hi) \div 2)
  IN  CASE lo = hi -> sweepCell(st, colBmps, rowBmp, row, lo)
        [] left.updateDoneStep ->
             sweepCols(left, colBmps, rowBmp, row, (lo + hi) \div 2 + 1, hi)
        [] OTHER ->
             sweepCols(left, colBmps, rowBmp, row, (lo + hi) \div 2 + 1, hi)

\* one row: rowBmp is computed from the grid as the row is entered
sweepRow(st, colBmps, row) ==
  sweepCols(st, colBmps, Not16(rowKnownBmp(st.grid, row)), row, 0, 8)

\* the outer loop over the rows lo..hi, in order
RECURSIVE sweepRows(_, _, _, _)
sweepRows(st, colBmps, lo, hi) ==
  LET left == sweepRows(st, colBmps, lo, (lo + hi) \div 2)
  IN  CASE lo = hi -> sweepRow(st, colBmps, lo)
        [] left.updateDoneStep -> sweepRows(left, colBmps, (lo + hi) \div 2 + 1, hi)
        [] OTHER -> sweepRows(left, colBmps, (lo + hi) \div 2 + 1, hi)

\* one pass of the do-while body: colBmps is computed before the rows
sweep(g) ==
  sweepRows([grid |-> g, updateDoneStep |-> FALSE],
            [col \in 0..8 |-> Not16(colKnownBmp(g, col))], 0, 8)

\* the mutant of intersectConstraints below: a single sweep, no loop
intersectOnce(g) == sweep(g).grid

RECURSIVE intersectLoop(_)
intersectLoop(g) ==
  LET r == sweep(g)
  IN  IF r.updateDoneStep THEN intersectLoop(r.grid) ELSE r.grid

intersectConstraints(g) == intersectLoop(g)

\* one iteration of the do-while loop and its condition, the sweeps counted
sweepBody(st) ==
  LET r == sweep(st.grid)
  IN  [grid |-> r.grid, nbSweeps |-> st.nbSweeps + 1, done |-> ~r.updateDoneStep]

\* the do-while loop run for at most 2^k sweeps
RECURSIVE sweepIterate(_, _)
sweepIterate(st, k) ==
  LET half == sweepIterate(st, k - 1)
  IN  CASE k = 0 -> sweepBody(st)
        [] half.done -> half
        [] OTHER -> sweepIterate(half, k - 1)

\* the grid intersectConstraints leaves and the number of sweeps it made, if
\* it returns within 2^MaxSweepLog sweeps (done tells)
intersectRun(g) ==
  sweepIterate([grid |-> g, nbSweeps |-> 0, done |-> FALSE], MaxSweepLog)

(***************************************************************************)
(* Grid::getCellWithLowestConstraints and Grid::generate                    *)
(***************************************************************************)
\* the mutant of lowestCell below: a tie is won by the later cell
lowestCellLast(g, r, c, st) ==
  LET nb == nbPossibleValues(cellAt(g, r, c))
  IN  IF nb > 1 /\ nb <= st.lowestNbPossibilities
      THEN [ret |-> <<r, c>>, lowestNbPossibilities |-> nb, returned |-> nb = 2]
      ELSE st

\* the body of the inner loop for the cell (r, c): ret is the pair found so
\* far, returned is set by the return inside the loop
lowestCell(g, r, c, st) ==
  LET nb == nbPossibleValues(cellAt(g, r, c))
  IN  IF nb > 1 /\ nb < st.lowestNbPossibilities
      THEN [ret |-> <<r, c>>, lowestNbPossibilities |-> nb, returned |-> nb = 2]
      ELSE st

\* the inner loop over the columns lo..hi of row r, in order (the range is
\* halved so that the evaluation stays shallow)
RECURSIVE lowestCols(_, _, _, _, _)
lowestCols(g, r, lo, hi, st) ==
  IF lo = hi THEN lowestCell(g, r, lo, st)
  ELSE LET left == lowestCols(g, r, lo, (lo + hi) \div 2, st)
       IN  IF left.returned THEN left
           ELSE lowestCols(g, r, (lo + hi) \div 2 + 1, hi, left)

\* the outer loop over the rows lo..hi, in order
RECURSIVE lowestRows(_, _, _, _)
lowestRows(g, lo, hi, st) ==
  IF lo = hi THEN lowestCols(g, lo, 0, 8, st)
  ELSE LET left == lowestRows(g, lo, (lo + hi) \div 2, st)
       IN  IF left.returned THEN left
           ELSE lowestRows(g, (lo + hi) \div 2 + 1, hi, left)

\* std::pair<int8_t, int8_t> ret is value-initialized to {0, 0}
getCellWithLowestConstraints(g) ==
  lowestRows(g, 0, 8, [ret |-> <<0, 0>>, lowestNbPossibilities |-> 10,
                       returned |-> FALSE]).ret

\* the grid with cell (row, col) replaced
withCell(g, row, col, bmp) ==
  [g EXCEPT ![subGridIdx(row \div 3, col \div 3)].cells[cellIdx(row % 3, col % 3)] = bmp]

\* the mutant of generate below: rhsCell is pushed before lhsCell
generateRhsFirst(g, gridVector) ==
  LET rc == getCellWithLowestConstraints(g)
      lr == split(cellAt(g, rc[1], rc[2]))
  IN  Append(Append(gridVector, withCell(g, rc[1], rc[2], lr.second)),
             withCell(g, rc[1], rc[2], lr.first))

\* the mutant of generate below: the second snapshot gets lhsCell again
generateLhsTwice(g, gridVector) ==
  LET rc == getCellWithLowestConstraints(g)
      lr == split(cellAt(g, rc[1], rc[2]))
  IN  Append(Append(gridVector, withCell(g, rc[1], rc[2], lr.first)),
             withCell(g, rc[1], rc[2], lr.first))

\* the mutant of generate below: the first snapshot is not pushed
generateRhsOnly(g, gridVector) ==
  LET rc == getCellWithLowestConstraints(g)
      lr == split(cellAt(g, rc[1], rc[2]))
  IN  Append(gridVector, withCell(g, rc[1], rc[2], lr.second))

\* Grid::generate: the stack after the two emplace_back
generate(g, gridVector) ==
  LET rc == getCellWithLowestConstraints(g)
      lr == split(cellAt(g, rc[1], rc[2]))
  IN  Append(Append(gridVector, withCell(g, rc[1], rc[2], lr.first)),
             withCell(g, rc[1], rc[2], lr.second))

(***************************************************************************)
(* Grid::solve as a function of the grid and the cap                        *)
(***************************************************************************)
\* the mutant of capReached below: compares before decrementing
capReachedPost(maxNb) == maxNb = 0

\* the mutant of capReached below: the cap never stops the loop
capReachedNever(maxNb) == FALSE

\* --maxNbSolutions == 0
capReached(maxNb) == maxNb - 1 = 0

\* the body of the do-while loop and its condition, on the locals of solve;
\* done is set by break and by the loop condition
loopBody(st) ==
  LET rest == SubSeq(st.grids, 1, Len(st.grids) - 1)
      r == Grid_isSolved(intersectConstraints(st.grids[Len(st.grids)]))
  IN  IF r.ret
      THEN [grids |-> rest,
            solutions |-> Append(st.solutions, r.grid),
            maxNbSolutions |-> st.maxNbSolutions - 1,
            done |-> capReached(st.maxNbSolutions) \/ rest = <<>>]
      ELSE IF ~Grid_isValid(r.grid)
           THEN [st EXCEPT !.grids = rest, !.done = (rest = <<>>)]
           ELSE [st EXCEPT !.grids = generate(r.grid, rest)]

\* the loop run for at most 2^k iterations
RECURSIVE iterate(_, _)
iterate(st, k) ==
  LET half == iterate(st, k - 1)
  IN  CASE k = 0 -> loopBody(st)
        [] half.done -> half
        [] OTHER -> iterate(half, k - 1)

\* the locals of solve when it returns, if it returns within 2^MaxLoopLog
\* iterations (done tells)
solveRun(g, maxNb) ==
  iterate([grids |-> <<g>>, solutions |-> <<>>, maxNbSolutions |-> maxNb,
           done |-> FALSE], MaxLoopLog)

\* the do-while loop run until its condition fails or the cap breaks it,
\* 2^MaxLoopLog iterations at a time
RECURSIVE solveLoop(_)
solveLoop(st) ==
  LET r == iterate(st, MaxLoopLog)
  IN  IF r.done THEN r ELSE solveLoop(r)

\* Grid::solve: the solutions returned, however many iterations it takes
solve(g, maxNb) ==
  solveLoop([grids |-> <<g>>, solutions |-> <<>>, maxNbSolutions |-> maxNb,
             done |-> FALSE]).solutions

\* Grid::setCharVector: the 81 characters of a grid, row-major
setCharVector(g) == [k \in 1..81 |-> convertToChar(cellAt(g, (k - 1) \div 9, (k - 1) % 9))]

(***************************************************************************)
(* The boards solve is run on                                               *)
(***************************************************************************)
\* a solved board, row-major
BaseBoard ==
  << "5","3","4","6","7","8","9","1","2",
     "6","7","2","1","9","5","3","4","8",
     "1","9","8","3","4","2","5","6","7",
     "8","5","9","7","6","1","4","2","3",
     "4","2","6","8","5","3","7","9","1",
     "7","1","3","9","2","4","8","5","6",
     "9","6","1","5","3","7","2","8","4",
     "2","8","7","4","1","9","6","3","5",
     "3","4","5","2","8","6","1","7","9" >>

\* groups of cells (1..81, row-major); a board blanks the cells of some of
\* the first NumGroups groups
HoleGroups ==
  << {55, 56, 65, 69, 70, 81},
     {45, 71, 73, 77, 78},
     {7, 8, 44, 59, 62, 79},
     {2, 5, 14, 17, 20, 30, 46, 63, 66},
     {18, 19, 30, 33, 37, 40, 41, 42, 58, 64},
     {5, 23, 25, 34, 36, 51, 64, 66},
     {12, 18, 21, 22, 25, 29, 63, 76},
     {9, 11, 14, 22, 30, 31, 32, 37, 40, 53} >>

\* a given that is overwritten: none, or cell 1 gets the '3' of cell 2
Overrides == { <<0, ".">>, <<1, "3">> }

Board(chosen, ov) ==
  [k \in 1..81 |->
     IF k = ov[1] THEN ov[2]
     ELSE IF \E j \in chosen : k \in HoleGroups[j] THEN "."
     ELSE BaseBoard[k]]

Boards == { Board(chosen, ov) : chosen \in SUBSET (1..NumGroups), ov \in Overrides }

Caps == -1..MaxCap

(***************************************************************************)
(* Grid::solve, step by step                                                *)
(***************************************************************************)
Init ==
  /\ \E board \in Boards : this = GridOfBoard(board)
  /\ maxArg \in Caps
  /\ maxNbSolutions = maxArg
  /\ grids = <<this>>
  /\ solutions = <<>>
  /\ grid = this
  /\ cell = EmptyBmp
  /\ lhsrhs = [first |-> EmptyBmp, second |-> EmptyBmp]
  /\ pc = "pop"

\* the loop condition !grids.empty(), reached at the end of the body and by continue
loopOrDone(gs) == IF gs = <<>> THEN "done" ELSE "pop"

\* Grid grid = std::move(grids.back()); grids.pop_back();
Pop ==
  /\ pc = "pop"
  /\ grid' = grids[Len(grids)]
  /\ grids' = SubSeq(grids, 1, Len(grids) - 1)
  /\ pc' = "intersect"
  /\ UNCHANGED <<this, maxArg, maxNbSolutions, solutions, cell, lhsrhs>>

\* the mutant of Intersect below: the propagated grid is written back to the
\* grid solve was called on
IntersectThis ==
  /\ pc = "intersect"
  /\ grid' = intersectConstraints(grid)
  /\ this' = grid'
  /\ pc' = "isSolved"
  /\ UNCHANGED <<maxArg, maxNbSolutions, grids, solutions, cell, lhsrhs>>

\* grid.intersectConstraints();
Intersect ==
  /\ pc = "intersect"
  /\ grid' = intersectConstraints(grid)
  /\ pc' = "isSolved"
  /\ UNCHANGED <<this, maxArg, maxNbSolutions, grids, solutions, cell, lhsrhs>>

\* if (grid.isSolved()) { solutions.push_back; if (--maxNbSolutions == 0) break; continue; }
CheckSolved ==
  /\ pc = "isSolved"
  /\ LET r == Grid_isSolved(grid)
     IN  /\ grid' = r.grid
         /\ IF r.ret
            THEN /\ solutions' = Append(solutions, r.grid)
                 /\ maxNbSolutions' = maxNbSolutions - 1
                 /\ pc' = IF capReached(maxNbSolutions) THEN "done"
                          ELSE loopOrDone(grids)
            ELSE /\ pc' = "isValid"
                 /\ UNCHANGED <<solutions, maxNbSolutions>>
  /\ UNCHANGED <<this, maxArg, grids, cell, lhsrhs>>

\* if (!grid.isValid()) continue;
CheckValid ==
  /\ pc = "isValid"
  /\ pc' = IF ~Grid_isValid(grid) THEN loopOrDone(grids) ELSE "generate"
  /\ UNCHANGED <<this, maxArg, maxNbSolutions, grids, solutions, grid, cell, lhsrhs>>

\* grid.generate(grids);
Generate ==
  /\ pc = "generate"
  /\ LET rc == getCellWithLowestConstraints(grid)
     IN  /\ cell' = cellAt(grid, rc[1], rc[2])
         /\ lhsrhs' = split(cellAt(grid, rc[1], rc[2]))
  /\ grids' = generate(grid, grids)
  /\ pc' = loopOrDone(grids')
  /\ UNCHANGED <<this, maxArg, maxNbSolutions, solutions, grid>>

Next == Pop \/ Intersect \/ CheckSolved \/ CheckValid \/ Generate

Spec == Init /\ [][Next]_vars

\* solve is sequential code: until it returns, the statement it is at is
\* executed and control moves on. Every step of Next changes pc, and Next
\* can step wherever CanStep holds.
Advance ==
  /\ pc # "done"
  /\ pc' \in {"pop", "intersect", "isSolved", "isValid", "generate", "done"} \ {pc}

\* the guards of the actions of Next
CanStep ==
  \/ pc = "pop" /\ grids # <<>>
  \/ pc \in {"intersect", "isSolved", "isValid", "generate"}

FairSpec == Spec /\ WF_pc(Advance)

(***************************************************************************)
(* Cell::split on its own: every bitmap of candidates among the digits 1..9 *)
(***************************************************************************)
SplitInit ==
  /\ this = GridOfBoard(BaseBoard)
  /\ maxArg = -1
  /\ maxNbSolutions = -1
  /\ grids = <<>>
  /\ solutions = <<>>
  /\ grid = this
  /\ cell \in SUBSET kAllPossibleBmp
  /\ lhsrhs = [first |-> EmptyBmp, second |-> EmptyBmp]
  /\ pc = "split"

\* auto [lhsCell, rhsCell] = cell.split();
SplitCell ==
  /\ pc = "split"
  /\ lhsrhs' = split(cell)
  /\ pc' = "splitDone"
  /\ UNCHANGED <<this, maxArg, maxNbSolutions, grids, solutions, grid, cell>>

SplitNext == SplitCell

SplitSpec == SplitInit /\ [][SplitNext]_vars

(***************************************************************************)
(* Grid::generate on its own: a solved grid with up to four cells replaced  *)
(* by candidate sets of 0 .. MaxWide candidates                             *)
(***************************************************************************)
\* the cells that are replaced: (0,1), (1,0), (4,3) and (8,8)
WideCells == << <<0, 1>>, <<1, 0>>, <<4, 3>>, <<8, 8>> >>

\* the bitmap of a replaced cell: the n lowest digits, or the cell as it was
WideBmp(old, n) == IF n < 0 THEN old ELSE { b \in kAllPossibleBmp : b < n }

\* the grid g with cell WideCells[j] given choice[j] candidates
WideCell(g, choice, j) ==
  withCell(g, WideCells[j][1], WideCells[j][2],
           WideBmp(cellAt(g, WideCells[j][1], WideCells[j][2]), choice[j]))

WideGrid(choice) ==
  WideCell(WideCell(WideCell(WideCell(GridOfBoard(BaseBoard), choice, 1),
                             choice, 2), choice, 3), choice, 4)

GenerateInit ==
  /\ \E choice \in [1..4 -> -1..MaxWide] : this = WideGrid(choice)
  /\ maxArg = -1
  /\ maxNbSolutions = -1
  /\ grids = <<>>
  /\ solutions = <<>>
  /\ grid = this
  /\ cell = EmptyBmp
  /\ lhsrhs = [first |-> EmptyBmp, second |-> EmptyBmp]
  /\ pc = "generate"

GenerateNext == Generate

GenerateSpec == GenerateInit /\ [][GenerateNext]_vars

(***************************************************************************)
(* What the claims speak of: the rules of sudoku, stated on their own       *)
(***************************************************************************)
\* the bitmaps of a grid, row-major
cellsOf(g) == [k \in 1..81 |-> cellAt(g, (k - 1) \div 9, (k - 1) % 9)]

RowHouse(r) == { r * 9 + c + 1 : c \in 0..8 }
ColHouse(c) == { r * 9 + c + 1 : r \in 0..8 }
BlockHouse(b) == { ((b \div 3) * 3 + i) * 9 + (b % 3) * 3 + j + 1 : i \in 0..2, j \in 0..2 }

\* the 27 rows, columns and blocks, as sets of cells
Houses == { RowHouse(r) : r \in 0..8 } \cup { ColHouse(c) : c \in 0..8 }
            \cup { BlockHouse(b) : b \in 0..8 }

\* the other cells of the houses of cell k
Peers == [k \in 1..81 |-> UNION { h \in Houses : k \in h } \ {k}]

AllSingletons(g) == \A k \in 1..81 : Cardinality(cellsOf(g)[k]) = 1

\* every house holds each digit 1..9
HousesComplete(g) ==
  \A h \in Houses : UNION { cellsOf(g)[k] : k \in h } = 0..8

\* all cells singleton, each house a permutation of 1..9
SolvedAndValid(g) == AllSingletons(g) /\ HousesComplete(g)

HasUnresolved(g) == \E k \in 1..81 : Cardinality(cellsOf(g)[k]) >= 2

\* f, one digit (as its bit) per cell, is a valid completion of the candidates cs
IsCompletion(f, cs) ==
  /\ \A k \in 1..81 : f[k] \in cs[k]
  /\ \A h \in Houses : { f[k] : k \in h } = 0..8

\* the digits cell k may take after partial (cells 1..k-1): a candidate that
\* is neither the digit of an earlier peer nor a given among the later peers
Fitting(cs, k, partial) ==
  { e \in cs[k] :
      \A j \in Peers[k] :
        /\ j < k => partial[j] # e
        /\ (j > k /\ Cardinality(cs[j]) = 1) => e \notin cs[j] }

\* the extensions of the partial assignments in ps (cells 1..lo-1) to the
\* cells lo..hi
RECURSIVE extendTo(_, _, _, _)
extendTo(cs, lo, hi, ps) ==
  IF ps = {} THEN ps
  ELSE IF lo = hi
       THEN UNION { { Append(partial, d) : d \in Fitting(cs, lo, partial) } :
                    partial \in ps }
       ELSE extendTo(cs, (lo + hi) \div 2 + 1, hi,
                     extendTo(cs, lo, (lo + hi) \div 2, ps))

\* all valid completions of a grid of candidates
Completions(g) ==
  { f \in extendTo(cellsOf(g), 1, 81, {<<>>}) : IsCompletion(f, cellsOf(g)) }

\* the returned grid sol is the full assignment f
IsGridOf(sol, f) == \A k \in 1..81 : cellsOf(sol)[k] = {f[k]}

(***************************************************************************)
(* The claims                                                               *)
(***************************************************************************)
\* C1: every grid solve returns has all cells singleton and every row,
\* column and block containing each digit 1..9 exactly once.
C1_ReturnedGridsSolvedAndValid ==
  \A i \in 1..Len(solutions) : SolvedAndValid(solutions[i])

\* C2: when the input has a valid completion, solve with max_solutions = -1
\* returns every valid completion of the input exactly once.
C2_AllCompletionsOnce ==
  (pc = "done" /\ maxArg = -1) =>
    \A f \in Completions(this) :
      Cardinality({ i \in 1..Len(solutions) : IsGridOf(solutions[i], f) }) = 1

\* a finished unbounded run on an input with several completions
C2_Witness ==
  /\ pc = "done"
  /\ maxArg = -1
  /\ Len(solutions) >= 3
  /\ Cardinality(Completions(this)) >= 3

\* C3: for an input with no valid completion solve returns an empty list.
C3_EmptyWhenNoCompletion ==
  (pc = "done" /\ solutions # <<>>) => Completions(this) # {}

\* C4: with max_solutions = k > 0 solve returns at most k grids, and when the
\* unbounded run returns at least k grids it returns exactly the first k of
\* them, in order.
C4_CapIsPrefix ==
  (pc = "done" /\ maxArg > 0) =>
    /\ Len(solutions) <= maxArg
    /\ LET all == solveRun(this, -1)
       IN  /\ all.done
           /\ Len(all.solutions) >= maxArg =>
                solutions = SubSeq(all.solutions, 1, maxArg)

\* a capped run that stopped at the cap with work left on the stack
C4_Witness ==
  /\ pc = "done"
  /\ maxArg = 2
  /\ Len(solutions) = 2
  /\ grids # <<>>

\* C5: the list solve returns holds no two grids with identical cells.
C5_NoDuplicates ==
  \A i, j \in 1..Len(solutions) :
    i # j => cellsOf(solutions[i]) # cellsOf(solutions[j])

\* a finished run that returned several grids
C5_Witness == pc = "done" /\ Len(solutions) >= 3

\* C6: solve with max_solutions = 0 returns the same list, in the same
\* order, as solve with max_solutions = -1.
C6_ZeroIsUnbounded ==
  (pc = "done" /\ maxArg = 0) =>
    LET all == solveRun(this, -1)
    IN  all.done /\ solutions = all.solutions

\* a finished run with cap 0 that went past its first solution
C6_Witness == pc = "done" /\ maxArg = 0 /\ Len(solutions) >= 2

\* the n numerically smallest elements of a bitmap
SmallestBits(bmp, n) == { b \in bmp : Cardinality({ x \in bmp : x < b }) < n }

\* the least n with 2 * n >= k
HalfRoundedUp(k) == CHOOSE n \in 0..k : 2 * n >= k /\ 2 * (n - 1) < k

\* C7: for a cell with k >= 2 candidates split returns as left the ceil(k/2)
\* smallest candidates and as right the remaining ones; the two are disjoint,
\* non-empty and their union is the cell.
C7_SplitHalves ==
  (pc = "splitDone" /\ Cardinality(cell) >= 2) =>
    /\ lhsrhs.first = SmallestBits(cell, HalfRoundedUp(Cardinality(cell)))
    /\ lhsrhs.second = cell \ lhsrhs.first
    /\ lhsrhs.first \cap lhsrhs.second = {}
    /\ lhsrhs.first \cup lhsrhs.second = cell
    /\ lhsrhs.first # {}
    /\ lhsrhs.second # {}

\* a cell with an odd number of candidates has been split
C7_Witness == pc = "splitDone" /\ Cardinality(cell) = 5 /\ Cardinality(lhsrhs.first) = 3

\* C8: when the driver calls generate, the grid has a cell with two or more
\* candidates and the cell chosen for splitting has two or more candidates.
C8_GenerateHasUnresolved ==
  pc = "generate" =>
    /\ HasUnresolved(grid)
    /\ LET rc == getCellWithLowestConstraints(grid)
       IN  Cardinality(cellAt(grid, rc[1], rc[2])) >= 2

\* the driver is about to call generate in the middle of a search
C8_Witness == pc = "generate" /\ solutions # <<>> /\ grids # <<>>

\* C9 as claimed: every snapshot on the work stack, the initial one included,
\* has a cell with two or more candidates.
C9_EverySnapshotUnresolved ==
  \A i \in 1..Len(grids) : HasUnresolved(grids[i])

\* C9 as amended: generate pushes two snapshots, each with a cell with two or
\* more candidates (the initial snapshot is pushed whatever the input is).
C9_GeneratedSnapshotsUnresolved ==
  [][pc = "generate" =>
       /\ Len(grids') = Len(grids) + 2
       /\ \A i \in (Len(grids) + 1)..Len(grids') : HasUnresolved(grids'[i])]_vars

\* generate has just pushed its two snapshots on a non-empty stack
C9_Witness ==
  /\ pc = "pop"
  /\ Len(grids) >= 3
  /\ cell # EmptyBmp
  /\ cellsOf(grids[Len(grids)]) # cellsOf(grids[Len(grids) - 1])

\* no cell with two or more candidates holds the digit of a singleton of its
\* row, column or block
NoKnownPeerCandidate(g) ==
  \A k \in 1..81 :
    Cardinality(cellsOf(g)[k]) >= 2 =>
      \A j \in Peers[k] :
        Cardinality(cellsOf(g)[j]) = 1 => cellsOf(g)[j] \cap cellsOf(g)[k] = {}

\* C10: after intersect_constraints a second run changes no cell, and no
\* cell with two or more candidates retains a digit that is a singleton in
\* its row, column or block.
C10_PropagationFixpoint ==
  pc = "isSolved" =>
    /\ intersectConstraints(grid) = grid
    /\ NoKnownPeerCandidate(grid)

\* propagation returned a grid with unresolved cells that it has narrowed
C10_Witness ==
  /\ pc = "isSolved"
  /\ \E k \in 1..81 : Cardinality(cellsOf(grid)[k]) \in 2..8
  /\ \E k \in 1..81 : Cardinality(cellsOf(grid)[k]) = 0

\* C11: across intersect_constraints every cell's candidate set is a subset
\* of the one it had before the call, and every cell that was a singleton
\* before the call is unchanged.
C11_PropagationMonotone ==
  [][pc = "intersect" =>
       \A k \in 1..81 :
         /\ cellsOf(grid')[k] \subseteq cellsOf(grid)[k]
         /\ Cardinality(cellsOf(grid)[k]) = 1 => cellsOf(grid')[k] = cellsOf(grid)[k]]_vars

\* the first propagation of a run narrowed a blank cell and left it unresolved
C11_Witness ==
  /\ pc = "isSolved"
  /\ cell = EmptyBmp
  /\ solutions = <<>>
  /\ \E k \in 1..81 :
       /\ cellsOf(this)[k] = kAllPossibleBmp
       /\ Cardinality(cellsOf(grid)[k]) \in 2..4

\* C12: a grid of candidate sets with a valid completion passes is_valid, so
\* the driver's validity check discards no grid that has a completion.
C12_CompletableIsValid ==
  pc = "isValid" => (Completions(grid) # {} => Grid_isValid(grid))

\* the driver is at its validity check with a grid that has several completions
C12_Witness ==
  /\ pc = "isValid"
  /\ Cardinality(Completions(grid)) >= 2
  /\ Grid_isValid(grid)

\* the cells of the grid g where the snapshot h differs from it
DiffCells(g, h) == { k \in 1..81 : cellsOf(g)[k] # cellsOf(h)[k] }

\* C13: generate appends exactly two snapshots and changes no entry below
\* them: a copy of the grid with the chosen cell replaced by the left subset,
\* then a copy with it replaced by the right subset, the SubGrid flags and
\* all other cells as in the grid. The driver pops the top of the stack and
\* nothing else removes or reorders entries, so the right snapshot is popped
\* next and the left one only once everything pushed above it is popped.
C13_GeneratePushOrder ==
  [][/\ pc = "generate" =>
          LET n == Len(grids)
              left == SmallestBits(cell', HalfRoundedUp(Cardinality(cell')))
          IN  /\ Len(grids') = n + 2
              /\ SubSeq(grids', 1, n) = grids
              /\ \E k \in 1..81 :
                   /\ cellsOf(grid)[k] = cell'
                   /\ DiffCells(grid, grids'[n + 1]) = {k}
                   /\ DiffCells(grid, grids'[n + 2]) = {k}
                   /\ cellsOf(grids'[n + 1])[k] = left
                   /\ cellsOf(grids'[n + 2])[k] = cell' \ left
              /\ \A s \in 0..8 :
                   /\ grids'[n + 1][s].isSolved = grid[s].isSolved
                   /\ grids'[n + 2][s].isSolved = grid[s].isSolved
              /\ pc' = "pop"
     /\ pc = "pop" =>
          /\ grid' = grids[Len(grids)]
          /\ grids' = SubSeq(grids, 1, Len(grids) - 1)
     /\ pc \notin {"generate", "pop"} => grids' = grids]_vars

\* the right snapshot has just been popped while the left one of the same
\* split is the top of the stack
C13_Witness ==
  /\ pc = "intersect"
  /\ grids # <<>>
  /\ Cardinality(lhsrhs.first) >= 1
  /\ \E k \in 1..81 :
       /\ cellsOf(grid)[k] = lhsrhs.second
       /\ cellsOf(grids[Len(grids)])[k] = lhsrhs.first
       /\ DiffCells(grid, grids[Len(grids)]) = {k}

\* the cells (1..81, row-major) with two or more candidates
UnresolvedCells(g) == { k \in 1..81 : Cardinality(cellsOf(g)[k]) >= 2 }

\* the first cell in row-major order among the unresolved cells with the
\* fewest candidates
FirstMinCell(g) ==
  CHOOSE k \in UnresolvedCells(g) :
    \A j \in UnresolvedCells(g) :
      \/ Cardinality(cellsOf(g)[j]) > Cardinality(cellsOf(g)[k])
      \/ Cardinality(cellsOf(g)[j]) = Cardinality(cellsOf(g)[k]) /\ k <= j

\* C14: on a grid with a cell of two or more candidates
\* getCellWithLowestConstraints returns the first cell in row-major order
\* among the cells with the fewest candidates, two at least; generate splits
\* that cell.
C14_FirstMinimalCell ==
  (pc = "pop" /\ Len(grids) = 2 /\ HasUnresolved(grid)) =>
    LET k == FirstMinCell(grid)
        rc == getCellWithLowestConstraints(grid)
    IN  /\ rc = <<(k - 1) \div 9, (k - 1) % 9>>
        /\ Cardinality(cellAt(grid, rc[1], rc[2])) >= 2
        /\ cell = cellsOf(grid)[k]
        /\ DiffCells(grid, grids[1]) = {k}
        /\ DiffCells(grid, grids[2]) = {k}

\* generate ran on a grid where cells (0,1) and (1,0) tie with three
\* candidates, the minimum, and a later cell has more
C14_Witness ==
  /\ pc = "pop"
  /\ Len(grids) = 2
  /\ Cardinality(cellsOf(grid)[2]) = 3
  /\ Cardinality(cellsOf(grid)[10]) = 3
  /\ Cardinality(cellsOf(grid)[81]) = 4
  /\ Cardinality(cell) = 3

\* C15: solve terminates: the loop is left, with the work stack empty or
\* with the cap reached.
C15_SolveTerminates ==
  /\ [](pc # "done" => CanStep)
  /\ <>(pc = "done" /\ (grids = <<>> \/ maxNbSolutions = 0))

\* an unbounded run that split cells and found solutions has ended on an
\* empty stack
C15_Witness ==
  /\ pc = "done"
  /\ maxArg = -1
  /\ grids = <<>>
  /\ cell # EmptyBmp
  /\ solutions # <<>>

\* C16: intersect_constraints terminates, after at most 81*9 sweeps.
C16_SweepsBounded ==
  pc = "intersect" =>
    LET r == intersectRun(grid)
    IN  /\ r.done
        /\ r.nbSweeps <= 81 * 9
        /\ r.grid = intersectConstraints(grid)

\* the driver is about to propagate a grid that takes six sweeps or more
C16_Witness == pc = "intersect" /\ intersectRun(grid).nbSweeps >= 6

\* the number of candidates of a grid, all cells together
TotalCandidates(g) ==
  Cardinality(UNION { { <<k, b>> : b \in cellsOf(g)[k] } : k \in 1..81 })

\* C17: the work stack never holds more than 81*9 snapshots. Every entry
\* has at least one candidate less than the input for each entry beneath it:
\* propagation adds no candidate and each snapshot generate pushes has fewer
\* candidates than the grid it was made from.
C17_StackBounded ==
  /\ [](/\ Len(grids) <= 81 * 9
        /\ \A i \in 1..Len(grids) :
             (i - 1) + TotalCandidates(grids[i]) <= TotalCandidates(this))
  /\ [][/\ pc = "intersect" => TotalCandidates(grid') <= TotalCandidates(grid)
        /\ pc = "generate" =>
             \A i \in (Len(grids) + 1)..Len(grids') :
               TotalCandidates(grids'[i]) < TotalCandidates(grid)]_vars

\* the stack is five snapshots deep
C17_Witness == pc = "pop" /\ Len(grids) >= 5

\* every cell of the grid g has bits 0..8 only
CellsClean(g) == \A k \in 1..81 : cellsOf(g)[k] \subseteq kAllPossibleBmp

\* C18: every cell of every grid of a solve (the input, the popped grid
\* before and after propagation and after its first sweep, the two halves
\* of a split, the stack snapshots and the solutions) has only bits 0..8 set.
C18_BitHygiene ==
  /\ CellsClean(this)
  /\ CellsClean(grid)
  /\ pc = "intersect" => CellsClean(sweep(grid).grid)
  /\ cell \subseteq kAllPossibleBmp
  /\ lhsrhs.first \subseteq kAllPossibleBmp
  /\ lhsrhs.second \subseteq kAllPossibleBmp
  /\ \A i \in 1..Len(grids) : CellsClean(grids[i])
  /\ \A i \in 1..Len(solutions) : CellsClean(solutions[i])

\* a grid has been propagated with masks whose bits 9..15 are set, after a
\* split whose right half is not empty
C18_Witness ==
  /\ pc = "isSolved"
  /\ lhsrhs.second # {}
  /\ grids # <<>>
  /\ (9..15) \subseteq Not16(getBmpKnownValues(grid[0]))
  /\ (9..15) \subseteq Not16(rowKnownBmp(grid, 0))

\* in the grid g a SubGrid whose flag is set has nine singleton cells, so
\* SubGrid::isSolved answers what the cells say
FlagsSound(g) ==
  \A s \in 0..8 :
    /\ g[s].isSolved => \A i \in 0..8 : Cardinality(g[s].cells[i]) = 1
    /\ SubGrid_isSolved(g[s]).ret = (\A i \in 0..8 : Cardinality(g[s].cells[i]) = 1)

\* C19: in the input, the popped grid, every stack snapshot and every
\* returned solution a SubGrid whose cached solved flag is set has all nine
\* cells singleton, so the cached answer equals the recomputed one.
C19_CachedFlagSound ==
  /\ FlagsSound(this)
  /\ FlagsSound(grid)
  /\ \A i \in 1..Len(grids) : FlagsSound(grids[i])
  /\ \A i \in 1..Len(solutions) : FlagsSound(solutions[i])

\* generate has copied a grid with a flagged SubGrid and an unsolved one
C19_Witness ==
  /\ pc = "pop"
  /\ cell # EmptyBmp
  /\ grids # <<>>
  /\ \E s \in 0..8 : grids[Len(grids)][s].isSolved
  /\ \E s \in 0..8 : ~allKnown(grids[Len(grids)][s].cells)

\* C20: every grid solve returns refines the input: each cell's candidates
\* are among those of the input, so every given digit is unchanged; and the
\* grid solve is called on is not modified.
C20_SolutionsRefineInput ==
  /\ [](\A i \in 1..Len(solutions) : \A k \in 1..81 :
          /\ cellsOf(solutions[i])[k] \subseteq cellsOf(this)[k]
          /\ Cardinality(cellsOf(this)[k]) = 1 =>
               cellsOf(solutions[i])[k] = cellsOf(this)[k])
  /\ [][this' = this]_vars

\* a capped run has returned a grid that fills a blank cell of the input
C20_Witness ==
  /\ pc = "done"
  /\ maxArg = 1
  /\ Len(solutions) = 1
  /\ \E k \in 1..81 :
       /\ cellsOf(this)[k] = kAllPossibleBmp
       /\ Cardinality(cellsOf(solutions[1])[k]) = 1

====
